---- MODULE Spec2Model ----
(***************************************************************************)
(* The universe of src/src/universe.rs: a mutable graph of vertices and    *)
(* edges kept in two HashMaps keyed by u32 identifiers, the structural     *)
(* editor (add, bind, reff, copy, atom, data), the locator resolver (find) *)
(* and the dataizer (dataize).                                             *)
(*                                                                         *)
(* Strings (labels and locators) are sequences of symbols.  The symbols    *)
(* "nu", "xi", "Phi", "rho", "pi" and "Delta" stand for the characters     *)
(* U+03BD, U+1D709, U+03A6, U+03C1, U+03C0 and U+0394 of the source; "int" *)
(* and "x" stand for the attribute names of the tests; "." and the digits  *)
(* are themselves.                                                         *)
(***************************************************************************)
EXTENDS Integers, Sequences, FiniteSets, TLC

VARIABLES
    vertices,         \* Universe.vertices : HashMap<u32, Vertex>
    edges,            \* Universe.edges    : HashMap<u32, Edge>
    descending,       \* iteration order of the edges map (fixed by its hasher)
    overflow_checks,  \* the build: TRUE panics on u32 overflow, FALSE wraps
    ret               \* the last call: its name, arguments and outcome

vars == <<vertices, edges, descending, overflow_checks, ret>>

---------------------------------------------------------------------------
(* Bounds of the model. *)

\* The largest identifier.  The source's identifiers are u32; the model keeps
\* the arithmetic of a fixed-width unsigned word on a narrower word.
U32_MAX == 7
\* The calls are explored while the maps hold at most this many entries.
MaxVertices == 2
MaxEdges == 2

---------------------------------------------------------------------------
(* Strings. *)

EmptyStr == << >>
Rho == <<"rho">>
Pi == <<"pi">>
Digits == <<"0", "1", "2", "3", "4", "5", "6", "7", "8", "9">>

\* The payload type is crate::data::Data, a byte buffer.
DataEmpty == << >>
from_int(n) == <<n>>
is_empty(d) == d = DataEmpty

\* Vertex::empty(): no data and the lambda that returns Ok(0).
VertexEmpty == [data |-> DataEmpty, lambda |-> "default"]

\* Edge::new(from, to, a, k)
EdgeNew(from, to, a, k) == [from |-> from, to |-> to, a |-> a, k |-> k]

\* Universe::empty()
UniverseEmpty == [vertices |-> << >>, edges |-> << >>]

---------------------------------------------------------------------------
(* HashMap. *)

\* HashMap::insert: the value of an existing key is replaced.
insert(m, k, v) == [x \in (DOMAIN m) \cup {k} |-> IF x = k THEN v ELSE m[x]]

\* HashMap::remove
remove(m, k) == [x \in (DOMAIN m) \ {k} |-> m[x]]

SetMax(S) == CHOOSE x \in S : \A y \in S : y <= x
SetMin(S) == CHOOSE x \in S : \A y \in S : x <= y

\* The first key, in the map's iteration order, among the keys S.
FirstKey(S) == IF descending THEN SetMax(S) ELSE SetMin(S)

---------------------------------------------------------------------------
(* Outcomes of a call: the universe it leaves, how it ended ("ok", "err"   *)
(* for a returned Err, "panic" for an unwrap or an overflow that aborts),  *)
(* and what it returned.                                                   *)

Outcome(u, status, id, data) == [u |-> u, status |-> status, id |-> id, data |-> data]
Ok(u) == Outcome(u, "ok", 0, DataEmpty)
OkId(u, id) == Outcome(u, "ok", id, DataEmpty)
OkData(u, id, d) == Outcome(u, "ok", id, d)
Err(u, id) == Outcome(u, "err", id, DataEmpty)
Panic(u) == Outcome(u, "panic", 0, DataEmpty)

---------------------------------------------------------------------------
(* Identifier allocator. *)

\* The maximum over the keys of both maps, 0 when there is none.
MaxKey(u) ==
    LET i0 == 0
        i1 == IF DOMAIN u.vertices # {} /\ SetMax(DOMAIN u.vertices) > i0
              THEN SetMax(DOMAIN u.vertices) ELSE i0
    IN  IF DOMAIN u.edges # {} /\ SetMax(DOMAIN u.edges) > i1
        THEN SetMax(DOMAIN u.edges) ELSE i1

\* i + 1 on the unsigned word: a panic with overflow checks, else it wraps.
next_id(u) ==
    LET i == MaxKey(u)
    IN  IF i + 1 > U32_MAX
        THEN IF overflow_checks THEN Panic(u) ELSE OkId(u, (i + 1) % (U32_MAX + 1))
        ELSE OkId(u, i + 1)

---------------------------------------------------------------------------
(* Locator resolver. *)

\* str::split("."): the pieces between the dots, empty pieces included.
RECURSIVE split(_)
split(s) ==
    IF \E i \in 1 .. Len(s) : s[i] = "."
    THEN LET i == SetMin({j \in 1 .. Len(s) : s[j] = "."})
         IN  <<SubSeq(s, 1, i - 1)>> \o split(SubSeq(s, i + 1, Len(s)))
    ELSE <<s>>

IsDigit(c) == \E i \in 1 .. 10 : Digits[i] = c
DigitVal(c) == (CHOOSE i \in 1 .. 10 : Digits[i] = c) - 1

\* The digits of s read from the left onto acc; -1 when a symbol is no digit
\* or the number does not fit the word.
RECURSIVE ParseDigits(_, _)
ParseDigits(s, acc) ==
    IF s = << >>
    THEN acc
    ELSE IF ~IsDigit(Head(s)) \/ acc * 10 + DigitVal(Head(s)) > U32_MAX
         THEN -1
         ELSE ParseDigits(Tail(s), acc * 10 + DigitVal(Head(s)))

\* u32::from_str: an optional "+" and at least one digit; -1 for an Err.
from_str(s) ==
    LET t == IF s # << >> /\ Head(s) = "+" THEN Tail(s) ELSE s
    IN  IF t = << >> THEN -1 ELSE ParseDigits(t, 0)

\* The edges leaving vtx with label k.
Matching(u, vtx, k) == {e \in DOMAIN u.edges : u.edges[e].from = vtx /\ u.edges[e].a = k}

\* A faulty segment: "Phi" is taken as "xi" is, and the number after "nu" is
\* counted from the current vertex.
Segment_relative(u, vtx, k) ==
    IF k # << >> /\ Head(k) = "nu"
    THEN IF from_str(Tail(k)) = -1 \/ vtx + from_str(Tail(k)) > U32_MAX
         THEN -1
         ELSE vtx + from_str(Tail(k))
    ELSE IF k = <<"xi">> \/ k = <<"Phi">>
         THEN vtx
         ELSE IF Matching(u, vtx, k) = {}
              THEN -1
              ELSE u.edges[FirstKey(Matching(u, vtx, k))].to

\* One segment of the locator, from the current vertex vtx: the new current
\* vertex, or -1 where the closure panics (an unwrap of an Err).
Segment(u, vtx, k) ==
    IF k # << >> /\ Head(k) = "nu"
    THEN from_str(Tail(k))
    ELSE IF k = <<"xi">>
         THEN vtx
         ELSE IF k = <<"Phi">>
              THEN 0
              ELSE IF Matching(u, vtx, k) = {}
                   THEN -1
                   ELSE u.edges[FirstKey(Matching(u, vtx, k))].to

RECURSIVE ForEach(_, _, _)
ForEach(u, vtx, segs) ==
    IF segs = << >>
    THEN vtx
    ELSE LET next == Segment(u, vtx, Head(segs))
         IN  IF next = -1 THEN -1 ELSE ForEach(u, next, Tail(segs))

\* Ok(vtx) after the last segment; a panic inside the closure aborts the call.
find(u, v, loc) ==
    LET vtx == ForEach(u, v, split(loc))
    IN  IF vtx = -1 THEN Panic(u) ELSE OkId(u, vtx)

---------------------------------------------------------------------------
(* Structural editor. *)

add(u, v) == Ok([u EXCEPT !.vertices = insert(u.vertices, v, VertexEmpty)])

\* A faulty bind: the backward edge is left out.
bind_one_way(u, e, v1, v2, a) ==
    Ok([u EXCEPT !.edges = insert(u.edges, e, EdgeNew(v1, v2, a, EmptyStr))])

bind(u, e, v1, v2, a) ==
    LET u1 == [u EXCEPT !.edges = insert(u.edges, e, EdgeNew(v1, v2, a, EmptyStr))]
    IN  IF a # Rho
        THEN LET n == next_id(u1)
             IN  IF n.status = "panic"
                 THEN Panic(u1)
                 ELSE Ok([u1 EXCEPT !.edges =
                             insert(u1.edges, n.id, EdgeNew(v2, v1, Rho, EmptyStr))])
        ELSE Ok(u1)

\* find(v1, k).unwrap(), then the edge is inserted with k as its locator.
reff(u, e1, v1, k, a) ==
    LET f == find(u, v1, k)
    IN  IF f.status # "ok"
        THEN Panic(u)
        ELSE Ok([u EXCEPT !.edges = insert(u.edges, e1, EdgeNew(v1, f.id, a, k))])

\* edges.get(&e1).unwrap() panics on an absent e1; e1 is removed, e2 inserted,
\* and the pi-edge gets the identifier next_id() gives after that.
copy(u, e1, v3, e2) ==
    IF e1 \notin DOMAIN u.edges
    THEN Panic(u)
    ELSE LET v1 == u.edges[e1].from
             v2 == u.edges[e1].to
             a == u.edges[e1].a
             k == u.edges[e1].k
             u1 == [u EXCEPT !.edges = remove(u.edges, e1)]
             u2 == [u1 EXCEPT !.edges = insert(u1.edges, e2, EdgeNew(v1, v3, a, k))]
             n == next_id(u2)
         IN  IF n.status = "panic"
             THEN Panic(u2)
             ELSE Ok([u2 EXCEPT !.edges =
                         insert(u2.edges, n.id, EdgeNew(v3, v2, Pi, EmptyStr))])

\* vertices.get_mut(&v).unwrap().lambda = m
atom(u, v, m) ==
    IF v \notin DOMAIN u.vertices
    THEN Panic(u)
    ELSE Ok([u EXCEPT !.vertices[v].lambda = m])

\* A faulty data: it looks the vertex up and leaves its payload as it was.
data_unset(u, v, d) ==
    IF v \notin DOMAIN u.vertices
    THEN Panic(u)
    ELSE Ok(u)

\* vertices.get_mut(&v).unwrap().data = d.clone()
data(u, v, d) ==
    IF v \notin DOMAIN u.vertices
    THEN Panic(u)
    ELSE Ok([u EXCEPT !.vertices[v].data = d])

---------------------------------------------------------------------------
(* Dataizer. *)

\* Option<&Vertex>: the set with the vertex, or the empty set.
vertex(u, v) == IF v \in DOMAIN u.vertices THEN {u.vertices[v]} ELSE {}

\* A faulty dataize: an absent vertex counts as one without payload.
dataize_or_default(u, v, loc) ==
    LET f == find(u, v, loc)
    IN  IF f.status # "ok"
        THEN Panic(u)
        ELSE IF f.id \notin DOMAIN u.vertices
             THEN OkData(u, f.id, DataEmpty)
             ELSE OkData(u, f.id, u.vertices[f.id].data)

\* A faulty dataize: it moves the payload out of the vertex it read.
dataize_take(u, v, loc) ==
    LET f == find(u, v, loc)
    IN  IF f.status # "ok"
        THEN Panic(u)
        ELSE IF f.id \notin DOMAIN u.vertices
             THEN Err(u, f.id)
             ELSE OkData([u EXCEPT !.vertices[f.id].data = DataEmpty],
                         f.id, u.vertices[f.id].data)

\* find(v, loc)?, then the vertex found or Err("v{id} is absent"), then a
\* reference to its data field.  The vertex's lambda is not called.
dataize(u, v, loc) ==
    LET f == find(u, v, loc)
    IN  IF f.status # "ok"
        THEN Panic(u)
        ELSE IF vertex(u, f.id) = {}
             THEN Err(u, f.id)
             ELSE OkData(u, f.id, (CHOOSE w \in vertex(u, f.id) : TRUE).data)

---------------------------------------------------------------------------
(* The atom of the tests. *)

\* rand: every call of it unwraps or returns (), so a panic inside ends it.
\* rnd is the value rand::random::<i64>() gives.
rand(u, rnd) ==
    LET e == next_id(u)
        r1 == reff(u, e.id, 0, <<"xi", ".", "int">>, <<"i">>)
        i == next_id(r1.u)
        r2 == add(r1.u, i.id)
        e2 == next_id(r2.u)
        r3 == copy(r2.u, e.id, i.id, e2.id)
        d == next_id(r3.u)
        r4 == add(r3.u, d.id)
        e3 == next_id(r4.u)
        r5 == bind(r4.u, e3.id, i.id, d.id, <<"Delta">>)
        r6 == data(r5.u, d.id, from_int(rnd))
    IN  IF e.status # "ok" THEN Panic(u)
        ELSE IF r1.status # "ok" THEN Panic(r1.u)
        ELSE IF i.status # "ok" THEN Panic(r1.u)
        ELSE IF e2.status # "ok" THEN Panic(r2.u)
        ELSE IF r3.status # "ok" THEN Panic(r3.u)
        ELSE IF d.status # "ok" THEN Panic(r3.u)
        ELSE IF e3.status # "ok" THEN Panic(r4.u)
        ELSE IF r5.status # "ok" THEN Panic(r5.u)
        ELSE IF r6.status # "ok" THEN Panic(r6.u)
        ELSE OkId(r6.u, i.id)

---------------------------------------------------------------------------
(* The arguments the calls are explored with. *)

IdArgs == {0, 1, U32_MAX}
VertexArgs == {0, 1}
Labels == {Rho, <<"int">>}
RefLabels == {<<"x">>}
RefLocators == {<<"nu", "1">>, <<"xi", ".", "int">>, <<"nu">>}
Locators ==
    {<<"Phi">>, <<"xi">>, <<"nu", "1">>, <<"int">>, <<"rho">>, <<"nope">>,
     <<"int", ".", "rho">>, <<"int", ".", "xi">>, <<"int", ".", "Phi">>,
     <<"Phi", ".", "nu", "1">>}
RandomInts == {3, 5}
Payloads == {DataEmpty, from_int(42)}
Lambdas == {"rand"}

---------------------------------------------------------------------------
(* The state machine: one action per public call.  A panic aborts the      *)
(* process: no call follows it.                                            *)

Universe == [vertices |-> vertices, edges |-> edges]

Running == ret.status # "panic"

Fits(r) ==
    /\ Cardinality(DOMAIN r.u.vertices) <= MaxVertices
    /\ Cardinality(DOMAIN r.u.edges) <= MaxEdges

Call(op, args, r) ==
    /\ Fits(r)
    /\ vertices' = r.u.vertices
    /\ edges' = r.u.edges
    /\ ret' = [op |-> op, args |-> args,
               status |-> r.status, id |-> r.id, data |-> r.data]
    /\ UNCHANGED <<descending, overflow_checks>>

Init ==
    /\ vertices = UniverseEmpty.vertices
    /\ edges = UniverseEmpty.edges
    /\ descending \in BOOLEAN
    /\ overflow_checks \in BOOLEAN
    /\ ret = [op |-> "empty", args |-> << >>, status |-> "ok", id |-> 0, data |-> DataEmpty]

NextId ==
    /\ Running
    /\ Call("next_id", << >>, next_id(Universe))

(* A caller that passes any identifier. *)

Add ==
    \E v \in IdArgs :
        /\ Running
        /\ Call("add", <<v>>, add(Universe, v))

Bind ==
    \E e \in IdArgs, v1 \in VertexArgs, v2 \in VertexArgs, a \in Labels :
        /\ Running
        /\ Call("bind", <<e, v1, v2, a>>, bind(Universe, e, v1, v2, a))

Reff ==
    \E e1 \in IdArgs, v1 \in VertexArgs, k \in RefLocators, a \in RefLabels :
        /\ Running
        /\ Call("reff", <<e1, v1, k, a>>, reff(Universe, e1, v1, k, a))

Copy ==
    \E e1 \in IdArgs, v3 \in VertexArgs, e2 \in IdArgs :
        /\ Running
        /\ Call("copy", <<e1, v3, e2>>, copy(Universe, e1, v3, e2))

Next == NextId \/ Add \/ Bind \/ Reff \/ Copy

Spec == Init /\ [][Next]_vars

(* A caller that builds a universe to dataize: the vertices 0 and 1, and   *)
(* between them edges under the identifier next_id() has just returned.    *)
(* No call of this caller overflows, so one build stands for both.         *)

InitData == Init /\ overflow_checks

Fresh == next_id(Universe)

RootAdd ==
    \E v \in VertexArgs :
        /\ Running
        /\ Call("add", <<v>>, add(Universe, v))

FreshBind ==
    \E v1 \in DOMAIN vertices, v2 \in DOMAIN vertices, a \in Labels :
        /\ Running
        /\ Fresh.status = "ok"
        /\ Call("bind", <<Fresh.id, v1, v2, a>>, bind(Universe, Fresh.id, v1, v2, a))

Data ==
    \E v \in VertexArgs, d \in Payloads :
        /\ Running
        /\ Call("data", <<v, d>>, data(Universe, v, d))

Atom ==
    \E v \in VertexArgs, m \in Lambdas :
        /\ Running
        /\ Call("atom", <<v, m>>, atom(Universe, v, m))

Dataize ==
    \E v \in VertexArgs, loc \in Locators :
        /\ Running
        /\ Call("dataize", <<v, loc>>, dataize(Universe, v, loc))

NextData == NextId \/ RootAdd \/ FreshBind \/ Atom \/ Data \/ Dataize

SpecData == InitData /\ [][NextData]_vars

(* A caller that binds to a vertex an atom of its own which dataizes the   *)
(* vertex it is bound to, fn(uni) { uni.dataize(v, "xi")...; Ok(v) }, and  *)
(* dataizes over edges that form cycles (an edge and its inverse).  The   *)
(* atom is a value of the vertex; the model names it "again".             *)

CyclicLambdas == {"again"}

AtomAgain ==
    \E v \in VertexArgs, m \in CyclicLambdas :
        /\ Running
        /\ Call("atom", <<v, m>>, atom(Universe, v, m))

NextCycle == RootAdd \/ FreshBind \/ AtomAgain \/ Dataize

SpecCycle == InitData /\ [][NextCycle]_vars

(* A caller that passes as identifier only the value next_id() has just   *)
(* returned, and names only vertices of the store.  As rand does, it       *)
(* copies an edge to the vertex it has just added; copy is called while    *)
(* the edges fit the bound and may leave one edge more.  No call of this   *)
(* caller overflows within the bounds.                                     *)

FreshLocators == {<<"nu", "1">>, <<"int">>, EmptyStr}
FreshLabels == {<<"x">>, EmptyStr}

FreshAdd ==
    /\ Running
    /\ Fresh.status = "ok"
    /\ Call("add", <<Fresh.id>>, add(Universe, Fresh.id))

FreshReff ==
    \E v1 \in DOMAIN vertices, k \in FreshLocators, a \in FreshLabels :
        /\ Running
        /\ Fresh.status = "ok"
        /\ find(Universe, v1, k).status = "ok"
        /\ find(Universe, v1, k).id \in DOMAIN vertices
        /\ Call("reff", <<Fresh.id, v1, k, a>>, reff(Universe, Fresh.id, v1, k, a))

FreshCopy ==
    \E e1 \in DOMAIN edges, v3 \in DOMAIN vertices :
        /\ Running
        /\ Fresh.status = "ok"
        /\ Cardinality(DOMAIN edges) <= MaxEdges
        /\ ret.op = "add" /\ ret.args[1] = v3
        /\ LET r == copy(Universe, e1, v3, Fresh.id)
           IN  /\ vertices' = r.u.vertices
               /\ edges' = r.u.edges
               /\ ret' = [op |-> "copy", args |-> <<e1, v3, Fresh.id>>,
                          status |-> r.status, id |-> r.id, data |-> r.data]
        /\ UNCHANGED <<descending, overflow_checks>>

NextFresh == FreshAdd \/ FreshBind \/ FreshReff \/ FreshCopy

SpecFresh == InitData /\ [][NextFresh]_vars

(* The same caller in either build, adding vertices for as long as next_id *)
(* returns: it reaches the end of the identifier space.                    *)

ExhaustAdd ==
    /\ Running
    /\ Fresh.status = "ok"
    /\ LET r == add(Universe, Fresh.id)
       IN  /\ vertices' = r.u.vertices
           /\ edges' = r.u.edges
           /\ ret' = [op |-> "add", args |-> <<Fresh.id>>,
                      status |-> r.status, id |-> r.id, data |-> r.data]
    /\ UNCHANGED <<descending, overflow_checks>>

NextExhaust == ExhaustAdd \/ FreshBind \/ FreshReff \/ FreshCopy

SpecExhaust == Init /\ [][NextExhaust]_vars

---------------------------------------------------------------------------
(* Properties. *)

Keys == DOMAIN vertices \cup DOMAIN edges

\* C1: the value next_id() returns is the identifier of no vertex and of no
\* edge of the store, whatever identifiers the caller passed before.
C1_NextIdNotInUse ==
    (ret.op = "next_id" /\ ret.status = "ok") => ret.id \notin Keys

NoSharedId == DOMAIN vertices \cap DOMAIN edges = {}

\* A step replaces no vertex and no edge: what was in the store and still is
\* has kept its value (the edge copy removes before it inserts is set aside).
KeepsEntries ==
    /\ \A v \in DOMAIN vertices :
          v \in DOMAIN vertices' /\ vertices'[v] = vertices[v]
    /\ \A e \in DOMAIN edges \cap DOMAIN edges' :
          \/ edges'[e] = edges[e]
          \/ ret'.op = "copy" /\ ret'.status = "ok" /\ ret'.args[1] = e

\* C2: no identifier is used twice: none is a vertex and an edge at once, and
\* an insertion replaces no vertex and no edge that has the same identifier.
C2_NoIdUsedTwice == [][NoSharedId' /\ KeepsEntries]_vars

\* C3: next_id() leaves the universe as it is and returns 1 on the empty
\* universe, else 1 + the maximum identifier; and after add(v) it does not
\* return v.
C3_NextIdIsMaxPlusOne ==
    [][/\ (ret'.op = "next_id" /\ ret'.status = "ok") =>
             /\ vertices' = vertices
             /\ edges' = edges
             /\ ret'.id = IF Keys = {} THEN 1 ELSE 1 + SetMax(Keys)
       /\ (ret.op = "add" /\ ret'.op = "next_id" /\ ret'.status = "ok") =>
             ret'.id # ret.args[1]]_vars

\* C4: bind(e, v1, v2, a) leaves two edges more when a is not "rho" (e from
\* v1 to v2 labelled a, and under a new identifier other than e an edge from
\* v2 to v1 labelled "rho"), and one edge more (e) when a is "rho".
C4_BindAddsTwoEdgesOrOne ==
    [][(ret'.op = "bind" /\ ret'.status = "ok") =>
          LET e == ret'.args[1]
              v1 == ret'.args[2]
              v2 == ret'.args[3]
              a == ret'.args[4]
          IN  /\ e \in DOMAIN edges'
              /\ edges'[e] = EdgeNew(v1, v2, a, EmptyStr)
              /\ IF a # Rho
                 THEN /\ Cardinality(DOMAIN edges') = Cardinality(DOMAIN edges) + 2
                      /\ \E b \in DOMAIN edges' \ (DOMAIN edges \cup {e}) :
                            edges'[b] = EdgeNew(v2, v1, Rho, EmptyStr)
                 ELSE Cardinality(DOMAIN edges') = Cardinality(DOMAIN edges) + 1]_vars

\* The edges labelled "pi" that a step puts into the store, e2 set aside.
NewPi(e2) ==
    {p \in DOMAIN edges' \ {e2} :
        /\ edges'[p].a = Pi
        /\ (p \notin DOMAIN edges \/ edges[p] # edges'[p])}

\* C5: after copy(e1, v3, e2) of an edge e1 from v1 to v2 labelled a (e2 being
\* another identifier than e1), e1 is not in the store, e2 goes from v1 to
\* v3 with a and the locator of e1, and one new edge labelled "pi" exists,
\* from v3 to v2.
C5_CopyReplacesEdge ==
    [][(ret'.op = "copy" /\ ret'.status = "ok" /\ ret'.args[1] # ret'.args[3]) =>
          LET e1 == ret'.args[1]
              v3 == ret'.args[2]
              e2 == ret'.args[3]
              old == edges[e1]
          IN  /\ e1 \notin DOMAIN edges'
              /\ e2 \in DOMAIN edges'
              /\ edges'[e2] = EdgeNew(old.from, v3, old.a, old.k)
              /\ Cardinality(NewPi(e2)) = 1
              /\ \A p \in NewPi(e2) : edges'[p].from = v3 /\ edges'[p].to = old.to]_vars

\* C6: every edge of the store goes from an existing vertex to an existing
\* vertex.
C6_NoDanglingEdge ==
    \A e \in DOMAIN edges :
        edges[e].from \in DOMAIN vertices /\ edges[e].to \in DOMAIN vertices

\* The vertex a locator resolves to from a start vertex, -1 when find panics.
Resolves(u, args) ==
    LET f == find(u, args[1], args[2])
    IN  IF f.status = "ok" THEN f.id ELSE -1

\* C7: a dataize call that follows data(v, d) on an existing vertex v, with a
\* locator that resolves to v, succeeds and returns d.
C7_DataizeReturnsData ==
    [][(/\ ret.op = "data" /\ ret.status = "ok"
        /\ ret'.op = "dataize"
        /\ Resolves(Universe, ret'.args) = ret.args[1]) =>
          (ret'.status = "ok" /\ ret'.data = ret.args[2])]_vars

\* A payload read through an attribute: vertex 1 reached from vertex 0 by the
\* edge labelled "int".
C7_Witness ==
    /\ ret.op = "dataize" /\ ret.status = "ok"
    /\ ret.args = <<0, <<"int">>>>
    /\ ret.id = 1
    /\ ret.data = from_int(42)

\* C8: a dataize call that returns a stored payload leaves the vertices and
\* the edges as they were, and the same call made again returns the same
\* payload.
C8_DataizeIdempotent ==
    [][/\ (ret'.op = "dataize" /\ ret'.status = "ok" /\ ~is_empty(ret'.data)) =>
             (vertices' = vertices /\ edges' = edges)
       /\ (/\ ret.op = "dataize" /\ ret.status = "ok" /\ ~is_empty(ret.data)
           /\ ret'.op = "dataize" /\ ret'.args = ret.args) =>
             (ret'.status = "ok" /\ ret'.data = ret.data)]_vars

\* A payload read through one of two edges with the same label, where the
\* iteration order of the map decides.
C8_Witness ==
    /\ ret.op = "dataize" /\ ret.status = "ok" /\ ~is_empty(ret.data)
    /\ ret.args[2] = Rho
    /\ Cardinality(Matching(Universe, ret.args[1], Rho)) = 2
    /\ \E e \in Matching(Universe, ret.args[1], Rho) : edges[e].to # ret.id

\* C9: when dataize resolves to a vertex without payload whose atom is rand,
\* the atom runs on the universe, and dataize returns the payload of the
\* vertex the atom returned as it is after the run.
C9_AtomInvoked ==
    [][(/\ ret'.op = "dataize"
        /\ Resolves(Universe, ret'.args) \in DOMAIN vertices
        /\ is_empty(vertices[Resolves(Universe, ret'.args)].data)
        /\ vertices[Resolves(Universe, ret'.args)].lambda = "rand") =>
          \E rnd \in RandomInts :
              LET r == rand(Universe, rnd)
              IN  /\ vertices' = r.u.vertices
                  /\ edges' = r.u.edges
                  /\ IF r.status = "ok"
                     THEN /\ ret'.status = "ok"
                          /\ ret'.data = r.u.vertices[r.id].data
                     ELSE ret'.status = "panic"]_vars

\* C10: dataize never returns an empty payload as a success.
C10_NoEmptyPayload ==
    (ret.op = "dataize" /\ ret.status = "ok") => ~is_empty(ret.data)

\* C11: a dataize call whose locator has an attribute segment without a
\* matching edge returns an error value (LocatorNotFound) and leaves the
\* universe as it was.
C11_LocatorNotFound ==
    [][(ret'.op = "dataize" /\ Resolves(Universe, ret'.args) = -1) =>
          (ret'.status = "err" /\ vertices' = vertices /\ edges' = edges)]_vars

\* C12: add(v) on an identifier that is a vertex fails (DuplicateId) and
\* leaves the vertex, its payload and its atom as they were.
C12_AddDuplicateFails ==
    [][(ret'.op = "add" /\ ret'.args[1] \in DOMAIN vertices) =>
          (ret'.status = "err" /\ vertices' = vertices /\ edges' = edges)]_vars

\* The call of a step names an identifier that is absent from the store: an
\* end of bind, the vertex of atom or of data, the source edge of copy.
NamesAbsent ==
    \/ /\ ret'.op = "bind"
       /\ (ret'.args[2] \notin DOMAIN vertices \/ ret'.args[3] \notin DOMAIN vertices)
    \/ /\ ret'.op \in {"atom", "data"}
       /\ ret'.args[1] \notin DOMAIN vertices
    \/ /\ ret'.op = "copy"
       /\ ret'.args[1] \notin DOMAIN edges

\* C13: a call that names an absent identifier returns an error value
\* (UnknownVertex, UnknownEdge), does not abort the process, and leaves the
\* universe as it was.
C13_AbsentIdIsRecoverable ==
    [][NamesAbsent =>
          (ret'.status = "err" /\ vertices' = vertices /\ edges' = edges)]_vars

\* C14: a dataize call whose locator resolves to an identifier t that is no
\* vertex returns the error that names t, and leaves the universe as it was.
C14_AbsentVertexIsError ==
    [][(/\ ret'.op = "dataize"
        /\ Resolves(Universe, ret'.args) # -1
        /\ Resolves(Universe, ret'.args) \notin DOMAIN vertices) =>
          /\ ret'.status = "err"
          /\ ret'.id = Resolves(Universe, ret'.args)
          /\ is_empty(ret'.data)
          /\ vertices' = vertices
          /\ edges' = edges]_vars

\* "Phi" dataized from vertex 1 in a universe that has vertex 1 and no vertex 0.
C14_Witness ==
    /\ ret.op = "dataize" /\ ret.status = "err"
    /\ ret.args = <<1, <<"Phi">>>>
    /\ ret.id = 0
    /\ DOMAIN vertices = {1}

\* The segments of the locator of the last call, its last segment, and the
\* vertex its other segments lead to from the start vertex (-1: they fail).
LastSegs == split(ret.args[2])
LastSeg == LastSegs[Len(LastSegs)]
BeforeLast == ForEach(Universe, ret.args[1], SubSeq(LastSegs, 1, Len(LastSegs) - 1))

\* C15: after any resolved prefix, a "Phi" segment gives vertex 0, a "xi"
\* segment gives the vertex the prefix gave, and a "nu1" segment gives vertex 1,
\* from every start vertex.
C15_ReservedSegments ==
    (ret.op = "dataize" /\ BeforeLast # -1) =>
        /\ LastSeg = <<"Phi">> => (ret.status # "panic" /\ ret.id = 0)
        /\ LastSeg = <<"xi">> => (ret.status # "panic" /\ ret.id = BeforeLast)
        /\ LastSeg = <<"nu", "1">> => (ret.status # "panic" /\ ret.id = 1)

\* "Phi" resolved from vertex 1 to vertex 0, both in the store.
C15_Witness ==
    /\ ret.op = "dataize" /\ ret.status = "ok"
    /\ ret.args = <<1, <<"Phi">>>>
    /\ ret.id = 0
    /\ DOMAIN vertices = {0, 1}

\* C16: reff(e, v1, k, a) resolves k from v1 in the state before the call and
\* stores the one edge e from v1 to the vertex found, labelled a, with k as
\* its locator, and no other edge; when k does not resolve it returns the
\* error and stores nothing.  An edge that carries a locator keeps its
\* target while it is not stored anew.
C16_ReffResolvesAtCall ==
    [][/\ ret'.op = "reff" =>
             LET e == ret'.args[1]
                 v1 == ret'.args[2]
                 k == ret'.args[3]
                 a == ret'.args[4]
                 t == Resolves(Universe, <<v1, k>>)
             IN  /\ vertices' = vertices
                 /\ IF t = -1
                    THEN ret'.status = "err" /\ edges' = edges
                    ELSE /\ ret'.status = "ok"
                         /\ edges' = insert(edges, e, EdgeNew(v1, t, a, k))
       /\ \A e \in DOMAIN edges \cap DOMAIN edges' :
             (edges[e].k # EmptyStr /\ edges'[e].k = edges[e].k) =>
                 \/ edges'[e].to = edges[e].to
                 \/ ret'.op = "reff" /\ ret'.args[1] = e
                 \/ ret'.op = "copy" /\ ret'.args[3] = e]_vars

\* C17: a dataize call that comes to a vertex without payload whose atom
\* dataizes that same vertex ends, and ends with the error
\* (EvaluationLimitExceeded): it neither aborts nor returns a payload.
C17_CyclicEvaluationEnds ==
    (/\ ret.op = "dataize"
     /\ Resolves(Universe, ret.args) \in DOMAIN vertices
     /\ is_empty(vertices[Resolves(Universe, ret.args)].data)
     /\ vertices[Resolves(Universe, ret.args)].lambda \in CyclicLambdas) =>
        ret.status = "err"

\* The check on inverses: every edge without locator whose label is neither
\* "rho" nor "pi" has an edge labelled "rho" that goes the other way.
Inverses ==
    \A e \in DOMAIN edges :
        (edges[e].k = EmptyStr /\ edges[e].a # Rho /\ edges[e].a # Pi) =>
            \E b \in DOMAIN edges :
                /\ edges[b].a = Rho
                /\ edges[b].from = edges[e].to
                /\ edges[b].to = edges[e].from

BuildStep ==
    /\ ret'.status = "ok"
    /\ \/ ret'.op \in {"next_id", "add", "bind"}
       \/ ret'.op = "reff" /\ ret'.args[3] # EmptyStr

C19_CopyFrame ==
    [][(/\ ret'.op = "copy"
        /\ ret'.status = "ok"
        /\ ret'.args[1] \in DOMAIN edges
        /\ ret'.args[3] \notin Keys) =>
          /\ vertices' = vertices
          /\ \A e \in DOMAIN edges \ {ret'.args[1]} :
                e \in DOMAIN edges' /\ edges'[e] = edges[e]
          /\ Cardinality(DOMAIN edges') = Cardinality(DOMAIN edges) + 1]_vars


\* C20: when every identifier passed to add, bind, reff and copy is the one
\* next_id() has just returned, each of these calls leaves next_id() with a
\* greater value than it had before the call.
C20_NextIdGrows ==
    [][(/\ ret'.op \in {"add", "bind", "reff", "copy"}
        /\ ret'.status = "ok"
        /\ next_id(Universe').status = "ok") =>
          next_id(Universe').id > next_id(Universe).id]_vars

================================================================
